---- MODULE Spec2Model ----
(***************************************************************************)
(* A model of pipedream's AssetRegistry (src/src/registry.rs): the file    *)
(* tree, rescan and its ingestion pipeline, the lookups and the texture    *)
(* upload cache.                                                           *)
(*                                                                         *)
(* Strings are sequences of one-character strings, so that replace, split, *)
(* join and Path::extension are computed as the code computes them.        *)
(* File and directory names hold no separator ("/" or "\"), as the        *)
(* filesystem input contract has it; the walker joins them with "/".       *)
(***************************************************************************)
EXTENDS Integers, Sequences, FiniteSets, TLC

VARIABLES
    fs,                   \* the files below the base directory
    file_tree,            \* AssetRegistry::file_tree
    uid_to_path,          \* AssetRegistry::uid_to_path
    cached_texture_arcs,  \* AssetRegistry::cached_texture_arcs
    scan,                 \* what the last rescan met and did
    ret,                  \* the value the last lookup returned
    gpu,                  \* the uploads made, the handles get_texture returned
    superseded,           \* the uids of the File nodes rescans have removed
    nfs, nscans           \* the filesystem changes and rescans so far

vars == <<fs, file_tree, uid_to_path, cached_texture_arcs,
          scan, ret, gpu, superseded, nfs, nscans>>

(***************************************************************************)
(* Bounds of the model.                                                    *)
(***************************************************************************)
\* modification times are drawn from 1..MaxTime
MaxTime == 2
\* rand::random() is drawn from 0..MaxUid
MaxUid == 1
\* number of filesystem changes in a behaviour
MaxFsOps == 3
\* number of rescans in a behaviour
MaxRescans == 2
\* number of uploads the device accepts in a behaviour
MaxUploads == 2
\* number of entries of one walk in whose place the walker yields an error
MaxWalkErrors == 1

Times == 1..MaxTime
Uids == 0..MaxUid

NONE == [kind |-> "None"]
Some(v) == [kind |-> "Some", val |-> v]
\* the call did not return: an unwrap() of an Err, a panic!, an unreachable!
PANIC == [kind |-> "Panic"]

(***************************************************************************)
(* str helpers                                                             *)
(***************************************************************************)
\* str::replace for one-character patterns
Replace(s, from, to) == [i \in 1..Len(s) |-> IF s[i] = from THEN to ELSE s[i]]

\* str::split for a one-character separator: always at least one piece
RECURSIVE Split(_, _)
Split(s, sep) ==
    IF \A i \in 1..Len(s) : s[i] # sep
    THEN <<s>>
    ELSE LET i == CHOOSE i \in 1..Len(s) :
                     s[i] = sep /\ \A j \in 1..(i - 1) : s[j] # sep
         IN  <<SubSeq(s, 1, i - 1)>> \o Split(SubSeq(s, i + 1, Len(s)), sep)

\* [String]::join
RECURSIVE Join(_, _)
Join(segs, sep) ==
    IF Len(segs) = 0 THEN <<>>
    ELSE IF Len(segs) = 1 THEN segs[1]
    ELSE segs[1] \o <<sep>> \o Join(Tail(segs), sep)

\* Path::file_name of a path without "." or ".." components: its last
\* component, under either separator
PathFileName(s) ==
    LET parts == Split(Replace(s, "\\", "/"), "/") IN parts[Len(parts)]

\* Path::extension: the part of the file name after its last ".", none when
\* the name has no "." or only a leading one
Extension(name) ==
    LET dots == {i \in 1..Len(name) : name[i] = "."} IN
    IF dots = {} THEN NONE
    ELSE LET d == CHOOSE i \in dots : \A j \in dots : j <= i IN
         IF d = 1 THEN NONE ELSE Some(SubSeq(name, d + 1, Len(name)))

(***************************************************************************)
(* The filesystem under base_path_relative.  A path is the sequence of its *)
(* components below the base directory.                                    *)
(***************************************************************************)
BasePathRelative == <<"r">>
\* std::path::MAIN_SEPARATOR of the build
MAIN_SEPARATOR == "/"

T_DIR  == <<"t">>
A_PNG  == <<"a", ".", "p", "n", "g">>
C_GIF  == <<"c", ".", "g", "i", "f">>
\* a PNG file whose extension is spelled in upper case
B_PNG  == <<"b", ".", "P", "N", "G">>

FsPaths == { <<A_PNG>>, <<T_DIR, A_PNG>>, <<T_DIR, C_GIF>>,
             <<A_PNG, A_PNG>> }

\* decoded images: dimensions, color type, bytes in the color type's layout
ImgRGB  == [w |-> 2, h |-> 1, colortype |-> "RGB8",
            bytes |-> <<255, 0, 0, 0, 255, 0>>]
ImgRGBA == [w |-> 1, h |-> 1, colortype |-> "RGBA8", bytes |-> <<1, 2, 3, 4>>]
ImgL16  == [w |-> 1, h |-> 1, colortype |-> "L16", bytes |-> <<0, 7>>]
\* the content of a file that is no PNG
NotPng  == [w |-> 0, h |-> 0, colortype |-> "none", bytes |-> <<>>]
Images == {ImgRGB, ImgL16}

IsProperPrefix(p, q) == Len(p) < Len(q) /\ SubSeq(q, 1, Len(p)) = p

\* a name is a file or a directory, never both
FsConsistent(f) ==
    \A p, q \in DOMAIN f : ~IsProperPrefix(p, q)

(***************************************************************************)
(* FileTreeNode, Asset, TextureAssetData, TextureMetadata                  *)
(***************************************************************************)
EmptyMap == [k \in {} |-> NONE]
MapInsert(m, k, v) == [x \in (DOMAIN m) \cup {k} |-> IF x = k THEN v ELSE m[x]]

Directory(m) == [kind |-> "Directory", map |-> m]
File(asset)  == [kind |-> "File", asset |-> asset]

RED   == 1
GREEN == 2
BLUE  == 4
ALPHA == 8

\* the walker's entry for the file at path p (its path is below the base
\* directory)
Entry(p) == [path      |-> Join(<<BasePathRelative>> \o p, MAIN_SEPARATOR),
             file_name |-> p[Len(p)],
             modified  |-> fs[p].mtime,
             img       |-> fs[p].img]

(***************************************************************************)
(* The ingestion pipeline                                                  *)
(***************************************************************************)
\* the chunks extended without the alpha byte pushed
ExpandRGB_NoAlpha(bytes) == bytes

\* for rgb in &bytes.chunks(3) { extend(rgb); push(255) }
RECURSIVE ExpandRGB(_)
ExpandRGB(bytes) ==
    IF Len(bytes) = 0 THEN <<>>
    ELSE IF Len(bytes) <= 3 THEN bytes \o <<255>>
    ELSE SubSeq(bytes, 1, 3) \o <<255>> \o ExpandRGB(SubSeq(bytes, 4, Len(bytes)))

\* match colortype with a catch-all arm that goes on
SupportedColorType_Any(colortype) == TRUE

\* match colortype: the arms that do not return None
SupportedColorType(colortype) == colortype \in {"RGB8", "RGBA8"}

\* the format tag following the color type of the source
FormatOf_Source(colortype) ==
    IF colortype = "RGB8" THEN "R8G8B8Srgb" ELSE "R8G8B8A8Srgb"

\* the format tag set in the arms of match colortype
FormatOf(colortype) == "R8G8B8A8Srgb"

ProcessTexture(entry, filename, ext, id) ==
    IF ext = <<"p", "n", "g">>
    THEN LET img == entry.img
             dimensions == <<img.w, img.h>>
             has_channels == IF img.colortype = "RGB8" THEN RED + GREEN + BLUE
                             ELSE RED + GREEN + BLUE + ALPHA
             result_data == IF img.colortype = "RGB8" THEN ExpandRGB(img.bytes)
                            ELSE img.bytes
         IN  IF img.colortype = "none"
             THEN PANIC       \* PNGDecoder::new(File::open(..).unwrap()).unwrap()
             ELSE IF ~SupportedColorType(img.colortype)
             THEN NONE
             ELSE Some([path         |-> filename,
                        timestamp    |-> entry.modified,
                        uid          |-> id,
                        thumbnail_id |-> NONE,
                        data |-> [settings |-> [source_size      |-> dimensions,
                                                max_ingame_size  |-> dimensions,
                                                data_size        |-> <<Len(result_data), 0>>,
                                                has_channels     |-> has_channels,
                                                format           |-> FormatOf(img.colortype),
                                                include_channels |-> has_channels],
                                  data     |-> result_data]])
    ELSE NONE

ProcessFile(entry, id) ==
    LET filename == entry.file_name
        ext == Extension(PathFileName(entry.path))
    IN  IF ext.kind = "Some"
           /\ ext.val \in { <<"p", "n", "g">>, <<"j", "p", "g">>,
                            <<"t", "g", "a">>, <<"d", "d", "s">> }
        THEN ProcessTexture(entry, filename, ext.val, id)
        ELSE NONE

(***************************************************************************)
(* Walking the tree                                                        *)
(***************************************************************************)
\* get_node_and_create_if_none: the tree with the missing directories
\* created, or the panic of line 154.  The node it returns is the one at
\* path_segments in that tree.
RECURSIVE GetNodeAndCreateIfNone(_, _)
GetNodeAndCreateIfNone(node, path_segments) ==
    IF Len(path_segments) = 0 THEN [panic |-> FALSE, node |-> node]
    ELSE IF node.kind = "File" THEN [panic |-> TRUE, node |-> node]
    ELSE LET segment == Head(path_segments)
             map == IF segment \in DOMAIN node.map THEN node.map
                    ELSE MapInsert(node.map, segment, Directory(EmptyMap))
             sub == GetNodeAndCreateIfNone(map[segment], Tail(path_segments))
         IN  [panic |-> sub.panic,
              node  |-> Directory(MapInsert(map, segment, sub.node))]

\* the node at a path of Directory keys that exists
RECURSIVE NodeAt(_, _)
NodeAt(node, segs) ==
    IF Len(segs) = 0 THEN node ELSE NodeAt(node.map[Head(segs)], Tail(segs))

\* the tree with the node at segs replaced
RECURSIVE ReplaceAt(_, _, _)
ReplaceAt(node, segs, new) ==
    IF Len(segs) = 0 THEN new
    ELSE Directory(MapInsert(node.map, Head(segs),
                             ReplaceAt(node.map[Head(segs)], Tail(segs), new)))

(***************************************************************************)
(* Lookups                                                                 *)
(***************************************************************************)
\* the node reached from node by a sequence of keys, if every key is there
RECURSIVE WalkTo(_, _)
WalkTo(node, segs) ==
    IF Len(segs) = 0 THEN Some(node)
    ELSE IF node.kind = "Directory" /\ Head(segs) \in DOMAIN node.map
         THEN WalkTo(node.map[Head(segs)], Tail(segs))
    ELSE NONE

IsFileNode(r) == r.kind = "Some" /\ r.val.kind = "File"

\* the File children of a directory's map (a Vec in the map's iteration
\* order, which is unspecified: modelled by its set of elements)
FileChildren(map) == {map[k].asset : k \in {x \in DOMAIN map : map[x].kind = "File"}}

\* the loop of get_assets_in_directory over the segments still to come
RECURSIVE AssetsInDirectoryLoop(_, _)
AssetsInDirectoryLoop(current_node, split) ==
    IF Len(split) = 0 THEN NONE
    ELSE IF current_node.kind = "File" THEN NONE
    ELSE IF Len(split) = 1                      \* split.peek().is_none()
         THEN Some(FileChildren(current_node.map))
    ELSE IF Head(split) \in DOMAIN current_node.map
         THEN AssetsInDirectoryLoop(current_node.map[Head(split)], Tail(split))
    ELSE NONE

GetAssetsInDirectoryOf(tree, path) ==
    LET pathstr == Replace(path, "\\", "/")
    IN  AssetsInDirectoryLoop(tree, Split(pathstr, "/"))

BasePathAbsolute == <<"/", "r">>

\* str::trim_start_matches: the prefix is removed as often as it matches
RECURSIVE TrimStartMatches(_, _)
TrimStartMatches(s, pat) ==
    IF Len(pat) > 0 /\ Len(s) >= Len(pat) /\ SubSeq(s, 1, Len(pat)) = pat
    THEN TrimStartMatches(SubSeq(s, Len(pat) + 1, Len(s)), pat)
    ELSE s

NonEmpty(seg) == Len(seg) > 0

\* the loop of get_asset returning the first File it meets, whatever segments
\* remain
AssetLoop_FirstFile(current_node, split) ==
    IF Len(split) = 0 THEN NONE
    ELSE LET met == {i \in 1..Len(split) :
                        IsFileNode(WalkTo(current_node, SubSeq(split, 1, i)))}
         IN  IF met = {} THEN NONE
             ELSE LET i == CHOOSE i \in met : \A j \in met : i <= j
                  IN  Some(WalkTo(current_node, SubSeq(split, 1, i)).val.asset)

\* the loop of get_asset over the segments still to come
RECURSIVE AssetLoop(_, _)
AssetLoop(current_node, split) ==
    IF Len(split) = 0 THEN NONE
    ELSE IF current_node.kind = "File" THEN NONE
    ELSE IF Head(split) \in DOMAIN current_node.map
         THEN LET node == current_node.map[Head(split)] IN
              IF node.kind = "File" /\ Len(split) = 1
              THEN Some(node.asset)
              ELSE AssetLoop(node, Tail(split))
    ELSE NONE

GetAssetOf(tree, path) ==
    LET pathstr == TrimStartMatches(Replace(path, "\\", "/"), BasePathAbsolute)
    IN  AssetLoop(tree, SelectSeq(Split(pathstr, "/"), NonEmpty))

(***************************************************************************)
(* rescan                                                                  *)
(***************************************************************************)
\* should_process with the timestamps never compared: every entry is handed
\* to process_file
ShouldProcess_Always(found, entry) == TRUE

\* should_process with the comparison inverted
ShouldProcess_Inverted(found, entry) ==
    IF found.kind = "None" THEN TRUE
    ELSE found.val.timestamp = entry.modified

\* should_process: whether the loop hands the entry to process_file, `found`
\* being the File of the same name in the target directory, if any
ShouldProcess(found, entry) ==
    IF found.kind = "None" THEN TRUE
    ELSE found.val.timestamp # entry.modified

\* the insertion made with new_id.unwrap_or_default()
RecordUid_Default(u2p, new_id, segments_copy) ==
    MapInsert(u2p, IF new_id.kind = "Some" THEN new_id.val ELSE 0,
              Join(segments_copy, "/"))

\* the insertion made with the directory's segments joined
RecordUid_Directory(u2p, new_id, segments_copy) ==
    IF new_id.kind = "Some"
    THEN MapInsert(u2p, new_id.val,
                   Join(SubSeq(segments_copy, 1, Len(segments_copy) - 1), "/"))
    ELSE u2p

\* if let Some(id) = new_id { uid_to_path.insert(id, segments_copy.join("/")) }
RecordUid(u2p, new_id, segments_copy) ==
    IF new_id.kind = "Some"
    THEN MapInsert(u2p, new_id.val, Join(segments_copy, "/"))
    ELSE u2p

\* The body of rescan's loop for the entry of the file at path p, on the
\* loop's state st: the tree, uid_to_path, and what the loop has done so far
\* (log: per entry, what it found and did).
RescanEntry(st, p, id) ==
    LET entry == Entry(p)
        segs == Tail(Split(Replace(entry.path, "\\", "/"), "/"))
        segments_copy == segs
        all_except_last == Len(segs) - 1
        path_segments == SubSeq(segs, 1, all_except_last)
        walk == GetNodeAndCreateIfNone(st.tree, path_segments)
    IN  IF walk.panic
        THEN [st EXCEPT !.tree = walk.node, !.result = "panic", !.panic_at = p,
                        !.panic_in = "get_node_and_create_if_none"]
        ELSE
    LET dir_node == NodeAt(walk.node, path_segments) IN
        IF dir_node.kind = "File"            \* unreachable!()
        THEN [st EXCEPT !.tree = walk.node, !.result = "panic", !.panic_at = p,
                        !.panic_in = "rescan"]
        ELSE
    LET map == dir_node.map
        same_name == {k \in DOMAIN map :
                         /\ map[k].kind = "File"
                         /\ PathFileName(map[k].asset.path) = entry.file_name}
        found == IF same_name = {} THEN NONE
                 ELSE Some((map[CHOOSE k \in same_name : TRUE]).asset)
        should_process == ShouldProcess(found, entry)
        filename == entry.file_name
        new_asset == IF should_process THEN ProcessFile(entry, id) ELSE NONE
        new_id == IF new_asset.kind = "Some" THEN Some(new_asset.val.uid) ELSE NONE
        new_map == IF new_asset.kind = "Some"
                   THEN MapInsert(map, filename, File(new_asset.val))
                   ELSE map
        new_tree == ReplaceAt(walk.node, path_segments, Directory(new_map))
    IN  IF new_asset.kind = "Panic"
        THEN [st EXCEPT !.tree = walk.node, !.result = "panic", !.panic_at = p,
                        !.panic_in = "process_texture"]
        ELSE
        [st EXCEPT
           !.tree = new_tree,
           !.u2p = RecordUid(@, new_id, segments_copy),
           !.inserted = IF new_asset.kind = "Some"
                        THEN @ \cup {new_asset.val.uid} ELSE @,
           !.log = MapInsert(@, p, [dir       |-> path_segments,
                                    found     |-> found,
                                    processed |-> should_process,
                                    new       |-> new_asset,
                                    entry     |-> IF filename \in DOMAIN new_map
                                                  THEN Some(new_map[filename])
                                                  ELSE NONE])]

\* the loop over the entries the walker yields, in its order; it ends at a
\* panic
RECURSIVE RescanLoop(_, _, _)
RescanLoop(st, order, rnd) ==
    IF Len(order) = 0 \/ st.result = "panic" THEN st
    ELSE RescanLoop(RescanEntry(st, Head(order), rnd[Head(order)]),
                    Tail(order), rnd)

\* the uids of the File nodes of a tree
RECURSIVE TreeUids(_)
TreeUids(node) ==
    IF node.kind = "File" THEN {node.asset.uid}
    ELSE UNION {TreeUids(node.map[k]) : k \in DOMAIN node.map}

\* the orders a recursive walk can yield the files of f in: the files below
\* one directory come together
WalkOrders(f) ==
    LET n == Cardinality(DOMAIN f)
        together(o) ==
            \A i, j, k \in 1..n :
               (i < j /\ j < k) =>
                  \A d \in 1..Len(o[i]) :
                     (/\ d < Len(o[i])
                      /\ d < Len(o[k])
                      /\ SubSeq(o[i], 1, d) = SubSeq(o[k], 1, d))
                     => (d < Len(o[j]) /\ SubSeq(o[j], 1, d) = SubSeq(o[i], 1, d))
    IN  {o \in [1..n -> DOMAIN f] :
            /\ \A i, j \in 1..n : i # j => o[i] # o[j]
            /\ together(o)}

\* the sequence o without the elements of the set drop
RECURSIVE Without(_, _)
Without(o, drop) ==
    IF Len(o) = 0 THEN <<>>
    ELSE IF Head(o) \in drop THEN Without(Tail(o), drop)
    ELSE <<Head(o)>> \o Without(Tail(o), drop)

\* The registry is owned by one caller, whose calls follow one another: a
\* call is made once the result of the last one has been taken.  A panic
\* ends the process.
Callable == scan.result # "panic" /\ ret.op = "none"

\* the sets of entries in whose place the walker may yield an error
WalkErrors(f) == {e \in SUBSET (DOMAIN f) : Cardinality(e) <= MaxWalkErrors}

NoScan == [result |-> "none", errors |-> {}, yielded |-> {}, inserted |-> {},
           log |-> EmptyMap, panic_at |-> <<>>, panic_in |-> "", seen |-> EmptyMap,
           before |-> Directory(EmptyMap), repeat |-> FALSE, number |-> 0]

\* rescan(), with the walker yielding the files in the order `order`, an
\* error in place of the entries of `errs`, and rand::random() yielding
\* rnd[p] for the file at p
RescanResult(order, errs, rnd) ==
    LET entries == Without(order, errs)    \* filter_map(Result::ok)
    IN  RescanLoop([tree |-> file_tree, u2p |-> uid_to_path, result |-> "ok",
                    inserted |-> {}, log |-> EmptyMap, panic_at |-> <<>>,
                    panic_in |-> ""],
                   entries, rnd)

Rescan ==
    /\ Callable
    /\ nscans < MaxRescans
    /\ \E order \in WalkOrders(fs), errs \in WalkErrors(fs) :
       \* rand::random() is drawn for the files that process_texture decodes
       \E dry \in {RescanResult(order, errs, [p \in DOMAIN fs |-> 0])} :
       \E decoded \in {{p \in DOMAIN dry.log : dry.log[p].new.kind = "Some"}} :
       \E drawn \in [decoded -> Uids] :
       \E st \in {RescanResult(order, errs,
                     [p \in DOMAIN fs |-> IF p \in decoded THEN drawn[p] ELSE 0])} :
          /\ file_tree' = st.tree
          /\ uid_to_path' = st.u2p
          /\ superseded' = superseded \cup (TreeUids(file_tree) \ TreeUids(st.tree))
          /\ scan' = [result   |-> st.result,
                      errors   |-> errs,
                      yielded  |-> (DOMAIN fs) \ errs,
                      inserted |-> st.inserted,
                      log      |-> st.log,
                      panic_at |-> st.panic_at,
                      panic_in |-> st.panic_in,
                      seen     |-> fs,
                      before   |-> file_tree,
                      repeat   |-> /\ scan.result = "ok"
                                   /\ scan.seen = fs
                                   /\ scan.yielded = (DOMAIN fs) \ errs,
                      number   |-> nscans + 1]
    /\ nscans' = nscans + 1
    /\ UNCHANGED <<fs, cached_texture_arcs, ret, gpu, nfs>>

(***************************************************************************)
(* The filesystem changes under the registry                               *)
(***************************************************************************)
WriteFile ==
    /\ nfs < MaxFsOps
    /\ \E p \in FsPaths, t \in Times :
       \E img \in (IF Extension(p[Len(p)]) = Some(<<"p", "n", "g">>)
                   THEN Images ELSE {NotPng}) :
          LET f == [q \in (DOMAIN fs) \cup {p} |->
                       IF q = p THEN [mtime |-> t, img |-> img] ELSE fs[q]]
          IN  /\ FsConsistent(f)
              /\ f # fs
              /\ fs' = f
    /\ nfs' = nfs + 1
    /\ UNCHANGED <<file_tree, uid_to_path, cached_texture_arcs, scan, ret,
                   gpu, superseded, nscans>>

DeleteFile ==
    /\ nfs < MaxFsOps
    /\ \E p \in DOMAIN fs : fs' = [q \in (DOMAIN fs) \ {p} |-> fs[q]]
    /\ nfs' = nfs + 1
    /\ UNCHANGED <<file_tree, uid_to_path, cached_texture_arcs, scan, ret,
                   gpu, superseded, nscans>>

\* the filesystem f with the file at p written at time t with content img
WithFile(f, p, t, img) ==
    [q \in (DOMAIN f) \cup {p} |-> IF q = p THEN [mtime |-> t, img |-> img] ELSE f[q]]

PngPaths == {p \in FsPaths : Extension(p[Len(p)]) = Some(<<"p", "n", "g">>)}

\* a file of a png name is written that cannot be opened or is no PNG
WriteUnreadable ==
    /\ nfs < MaxFsOps
    /\ \E p \in PngPaths, t \in Times :
          LET f == WithFile(fs, p, t, NotPng)
          IN  /\ FsConsistent(f)
              /\ f # fs
              /\ fs' = f
    /\ nfs' = nfs + 1
    /\ UNCHANGED <<file_tree, uid_to_path, cached_texture_arcs, scan, ret,
                   gpu, superseded, nscans>>

UpperCasePaths == { <<T_DIR, B_PNG>> }

\* a PNG file is written under a name whose extension is in upper case
WriteUpperCase ==
    /\ nfs < MaxFsOps
    /\ \E p \in UpperCasePaths, t \in Times, img \in Images :
          LET f == WithFile(fs, p, t, img)
          IN  /\ FsConsistent(f)
              /\ f # fs
              /\ fs' = f
    /\ nfs' = nfs + 1
    /\ UNCHANGED <<file_tree, uid_to_path, cached_texture_arcs, scan, ret,
                   gpu, superseded, nscans>>

TexturePaths == { <<A_PNG>>, <<T_DIR, A_PNG>> }
Textures == {ImgRGB, ImgRGBA, ImgL16}

\* a PNG file of any of the color types is written
WriteTexture ==
    /\ nfs < MaxFsOps
    /\ \E p \in TexturePaths, t \in Times, img \in Textures :
          LET f == WithFile(fs, p, t, img)
          IN  /\ FsConsistent(f)
              /\ f # fs
              /\ fs' = f
    /\ nfs' = nfs + 1
    /\ UNCHANGED <<file_tree, uid_to_path, cached_texture_arcs, scan, ret,
                   gpu, superseded, nscans>>

\* a file is replaced by a directory of its name that holds a file
ReplaceFileByDirectory ==
    /\ nfs < MaxFsOps
    /\ \E p \in DOMAIN fs :
       \E q \in {x \in FsPaths : IsProperPrefix(p, x)}, t \in Times, img \in Images :
          LET f == WithFile([x \in (DOMAIN fs) \ {p} |-> fs[x]], q, t, img)
          IN  /\ FsConsistent(f)
              /\ fs' = f
    /\ nfs' = nfs + 1
    /\ UNCHANGED <<file_tree, uid_to_path, cached_texture_arcs, scan, ret,
                   gpu, superseded, nscans>>

NoRet == [op |-> "none"]

\* AssetRegistry::new over an existing, empty base directory
Init ==
    /\ fs = EmptyMap
    /\ file_tree = Directory(EmptyMap)
    /\ uid_to_path = EmptyMap
    /\ cached_texture_arcs = EmptyMap
    /\ scan = NoScan
    /\ ret = NoRet
    /\ gpu = [uploads |-> {}, returned |-> {}]
    /\ superseded = {}
    /\ nfs = 0
    /\ nscans = 0

(***************************************************************************)
(* The calls of the lookups                                                *)
(***************************************************************************)
S_T     == T_DIR
S_A     == A_PNG
S_TA    == Join(<<T_DIR, A_PNG>>, "/")
S_TC    == Join(<<T_DIR, C_GIF>>, "/")
S_AA    == Join(<<A_PNG, A_PNG>>, "/")
S_TA_BS == Join(<<T_DIR, A_PNG>>, "\\")
S_TA_ABS == BasePathAbsolute \o <<"/">> \o S_TA
\* a relative path whose first directory is named as the base directory is
S_RA     == Join(<<BasePathRelative, A_PNG>>, "/")
S_RA_ABS == BasePathAbsolute \o <<"/">> \o S_RA

DirQueries == {S_T, S_A, S_TA, S_TC, S_TA_BS}
AssetQueries == {S_T, S_A, S_TA, S_AA, S_TA_ABS, S_RA, S_RA_ABS}
TextureQueries == {S_TA, S_TA_ABS}

GetAssetsInDirectory ==
    /\ Callable
    /\ \E path \in DirQueries :
          ret' = [op |-> "get_assets_in_directory", path |-> path,
                  val |-> GetAssetsInDirectoryOf(file_tree, path)]
    /\ UNCHANGED <<fs, file_tree, uid_to_path, cached_texture_arcs, scan,
                   gpu, superseded, nfs, nscans>>

GetAsset ==
    /\ Callable
    /\ \E path \in AssetQueries :
          ret' = [op |-> "get_asset", path |-> path,
                  val |-> GetAssetOf(file_tree, path)]
    /\ UNCHANGED <<fs, file_tree, uid_to_path, cached_texture_arcs, scan,
                   gpu, superseded, nfs, nscans>>

\* ImmutableImage::from_iter: the image the device holds after the n-th
\* upload; two handles are equal when they are handles of one upload
Upload(n, data, dimensions) == [id |-> n, data |-> data, dimensions |-> dimensions]

NumUploads == Cardinality(gpu.uploads)

\* get_texture with the cache read under the asset's path field, not under
\* the caller's path
GetTextureOf_AssetKey(path) ==
    LET found == GetAssetOf(file_tree, path) IN
    IF found.kind = "None"
    THEN [val |-> NONE, cache |-> cached_texture_arcs, uploaded |-> {}]
    ELSE IF found.val.path \in DOMAIN cached_texture_arcs
    THEN [val |-> Some(cached_texture_arcs[found.val.path]),
          cache |-> cached_texture_arcs, uploaded |-> {}]
    ELSE LET img == Upload(NumUploads + 1, found.val.data.data,
                           found.val.data.settings.source_size)
         IN  [val |-> Some(img),
              cache |-> MapInsert(cached_texture_arcs, path, img),
              uploaded |-> {img}]

\* get_texture with a cached handle used only while it holds the asset's
\* present payload, and replaced by a new upload otherwise
GetTextureOf_Revalidated(path) ==
    LET found == GetAssetOf(file_tree, path) IN
    IF found.kind = "None"
    THEN [val |-> NONE, cache |-> cached_texture_arcs, uploaded |-> {}]
    ELSE IF /\ path \in DOMAIN cached_texture_arcs
            /\ cached_texture_arcs[path].data = found.val.data.data
    THEN [val |-> Some(cached_texture_arcs[path]),
          cache |-> cached_texture_arcs, uploaded |-> {}]
    ELSE LET img == Upload(NumUploads + 1, found.val.data.data,
                           found.val.data.settings.source_size)
         IN  [val |-> Some(img),
              cache |-> MapInsert(cached_texture_arcs, path, img),
              uploaded |-> {img}]

\* get_texture(path): the value returned, the cache and the images uploaded
GetTextureOf(path) ==
    LET found == GetAssetOf(file_tree, path) IN
    IF found.kind = "None"
    THEN [val |-> NONE, cache |-> cached_texture_arcs, uploaded |-> {}]
    ELSE IF path \in DOMAIN cached_texture_arcs
    THEN [val |-> Some(cached_texture_arcs[path]),
          cache |-> cached_texture_arcs, uploaded |-> {}]
    ELSE IF found.val.data.settings.format = "R8G8B8A8Srgb"
    THEN LET img == Upload(NumUploads + 1, found.val.data.data,
                           found.val.data.settings.source_size)
         IN  [val |-> Some(img),
              cache |-> MapInsert(cached_texture_arcs, path, img),
              uploaded |-> {img}]
    ELSE [val |-> [kind |-> "unimplemented"],
          cache |-> cached_texture_arcs, uploaded |-> {}]

GetTexture ==
    /\ Callable
    /\ \E path \in TextureQueries :
       \E r \in {GetTextureOf(path)} :
          /\ NumUploads + Cardinality(r.uploaded) <= MaxUploads
          /\ ret' = [op |-> "get_texture", path |-> path, val |-> r.val]
          /\ cached_texture_arcs' = r.cache
          /\ gpu' = [uploads  |-> gpu.uploads \cup
                                     {[path |-> path, img |-> i] : i \in r.uploaded},
                     returned |-> IF r.val.kind = "Some"
                                  THEN gpu.returned \cup
                                          {[path |-> path, img |-> r.val.val,
                                            after |-> scan.number]}
                                  ELSE gpu.returned]
    /\ UNCHANGED <<fs, file_tree, uid_to_path, scan, superseded, nfs, nscans>>

\* the caller takes the result of the call
TakeResult ==
    /\ ret.op # "none"
    /\ ret' = NoRet
    /\ UNCHANGED <<fs, file_tree, uid_to_path, cached_texture_arcs, scan,
                   gpu, superseded, nfs, nscans>>

Next ==
    \/ WriteFile
    \/ WriteUnreadable
    \/ WriteUpperCase
    \/ WriteTexture
    \/ ReplaceFileByDirectory
    \/ DeleteFile
    \/ Rescan
    \/ GetAssetsInDirectory
    \/ GetAsset
    \/ GetTexture
    \/ TakeResult

Spec == Init /\ [][Next]_vars

\* the registry's operations, one lookup at a time
NextRescan == WriteFile \/ DeleteFile \/ Rescan
SpecRescan == Init /\ [][NextRescan]_vars

NextDirectory ==
    WriteFile \/ DeleteFile \/ Rescan \/ GetAssetsInDirectory \/ TakeResult
SpecDirectory == Init /\ [][NextDirectory]_vars

NextAsset == WriteFile \/ DeleteFile \/ Rescan \/ GetAsset \/ TakeResult
SpecAsset == Init /\ [][NextAsset]_vars

NextTexture == WriteFile \/ DeleteFile \/ Rescan \/ GetTexture \/ TakeResult
SpecTexture == Init /\ [][NextTexture]_vars

\* rescans over a filesystem that also holds unreadable files
NextUnreadable == WriteFile \/ WriteUnreadable \/ DeleteFile \/ Rescan
SpecUnreadable == Init /\ [][NextUnreadable]_vars

\* rescans over a filesystem that also holds PNG files named in upper case
NextUpperCase == WriteFile \/ WriteUpperCase \/ DeleteFile \/ Rescan
SpecUpperCase == Init /\ [][NextUpperCase]_vars

\* rescans over a filesystem in which files are also replaced by directories
NextReplace == WriteFile \/ ReplaceFileByDirectory \/ DeleteFile \/ Rescan
SpecReplace == Init /\ [][NextReplace]_vars

\* PNG files of every color type, ingested and uploaded
NextPayload == WriteTexture \/ DeleteFile \/ Rescan \/ GetTexture \/ TakeResult
SpecPayload == Init /\ [][NextPayload]_vars

(***************************************************************************)
(* Properties                                                              *)
(***************************************************************************)
\* the node a sequence of segments names, every segment resolved from node
RECURSIVE Resolve(_, _)
Resolve(node, segs) ==
    IF Len(segs) = 0 THEN Some(node)
    ELSE IF node.kind = "Directory" /\ Head(segs) \in DOMAIN node.map
         THEN Resolve(node.map[Head(segs)], Tail(segs))
    ELSE NONE

\* the segments of a path given to a lookup
Segments(path) == Split(Replace(path, "\\", "/"), "/")

IsDirectory(r) == r.kind = "Some" /\ r.val.kind = "Directory"
IsFile(r) == r.kind = "Some" /\ r.val.kind = "File"

ReturnedBy(op) == ret.op = op

\* C1: get_assets_in_directory(path), for a path whose segments, the last one
\* included, resolve from the root to a directory, returns exactly the File
\* children of that directory.
C1_ListsTheNamedDirectory ==
    ReturnedBy("get_assets_in_directory") =>
        LET r == Resolve(file_tree, Segments(ret.path)) IN
        IsDirectory(r) => ret.val = Some(FileChildren(r.val.map))

\* C2: get_assets_in_directory(path) returns none for a path that resolves to
\* a File node.
C2_FilePathGivesNone ==
    ReturnedBy("get_assets_in_directory") =>
        (IsFile(Resolve(file_tree, Segments(ret.path))) => ret.val = NONE)

\* C3: get_assets_in_directory(path) returns none when the final segment of
\* path is no key of the directory the preceding segments reach.
C3_MissingLastSegmentGivesNone ==
    ReturnedBy("get_assets_in_directory") =>
        LET segs == Segments(ret.path)
            parent == Resolve(file_tree, SubSeq(segs, 1, Len(segs) - 1))
        IN  (IsDirectory(parent) /\ segs[Len(segs)] \notin DOMAIN parent.val.map)
                => ret.val = NONE

\* a file that process_texture ingests: a png of color type RGB8 or RGBA8
Supported(f, p) ==
    /\ Extension(p[Len(p)]) = Some(<<"p", "n", "g">>)
    /\ f[p].img.colortype \in {"RGB8", "RGBA8"}

HasLeaf(tree, p) ==
    LET r == Resolve(tree, p) IN
    IsFile(r) /\ PathFileName(r.val.asset.path) = p[Len(p)]

\* C4: after a rescan over the filesystem F has returned, every png file of F
\* of color type RGB8 or RGBA8 has its File leaf in the tree, under the
\* directories of its relative path and named by its file name.
C4_EverySupportedFileHasItsLeaf ==
    scan.result = "ok" =>
        \A p \in DOMAIN scan.seen :
            Supported(scan.seen, p) => HasLeaf(file_tree, p)

\* C5: the calls get_texture(p) that find an asset all return the handle of
\* one upload, and the uploader is invoked at most once for the string p,
\* whatever rescans come between the calls.
C5_OneUploadPerPath ==
    /\ \A r1, r2 \in gpu.returned : r1.path = r2.path => r1.img = r2.img
    /\ \A u1, u2 \in gpu.uploads : u1.path = u2.path => u1 = u2

\* C5 witness: get_texture(p) has returned a handle before and after a rescan
\* that re-ingested the asset at p.
C5_Witness ==
    /\ ReturnedBy("get_texture")
    /\ scan.result = "ok"
    /\ \E r1, r2 \in gpu.returned :
          /\ r1.path = ret.path /\ r2.path = ret.path
          /\ r1.after < r2.after /\ r2.after = scan.number
    /\ \E p \in DOMAIN scan.log :
          /\ Join(p, "/") = ret.path
          /\ scan.log[p].found.kind = "Some"
          /\ scan.log[p].new.kind = "Some"

\* the last rescan followed one that returned ok, over an unchanged
\* filesystem, the walker yielding the same entries
SecondRescan == scan.repeat /\ scan.result = "ok"

ModifiedAt(p) == scan.seen[p].mtime

\* C7 (as claimed): an entry found with the file's modification time is kept
\* as it is; one found with another timestamp is replaced by an asset of a
\* different uid whose timestamp is the new modification time.
C7_FoundEntryKeptOrReplaced ==
    \A p \in DOMAIN scan.log :
        LET l == scan.log[p] IN
        l.found.kind = "Some" =>
            IF l.found.val.timestamp = ModifiedAt(p)
            THEN l.entry = Some(File(l.found.val))
            ELSE /\ IsFile(l.entry)
                 /\ l.entry.val.asset.uid # l.found.val.uid
                 /\ l.entry.val.asset.timestamp = ModifiedAt(p)

\* C7 (amended): an entry found with the file's modification time is kept as
\* it is and the file is not processed; one found with another timestamp has
\* its file processed again, and is replaced, under the same key, by the new
\* asset (timestamp the new modification time, uid newly drawn) when there is
\* one, and kept as it is when process_file returns none.
C7_FoundEntryKeptOrReprocessed ==
    \A p \in DOMAIN scan.log :
        LET l == scan.log[p] IN
        l.found.kind = "Some" =>
            IF l.found.val.timestamp = ModifiedAt(p)
            THEN ~l.processed /\ l.entry = Some(File(l.found.val))
            ELSE /\ l.processed
                 /\ (l.new.kind = "Some") = Supported(scan.seen, p)
                 /\ IF l.new.kind = "Some"
                    THEN /\ l.entry = Some(File(l.new.val))
                         /\ l.new.val.timestamp = ModifiedAt(p)
                         /\ l.new.val.path = l.found.val.path
                    ELSE l.entry = Some(File(l.found.val))

\* C7 witness: a rescan has replaced an entry whose timestamp differed from
\* the file's.
C7_Witness ==
    \E p \in DOMAIN scan.log :
        /\ scan.log[p].found.kind = "Some"
        /\ scan.log[p].found.val.timestamp # ModifiedAt(p)
        /\ scan.log[p].new.kind = "Some"
        /\ HasLeaf(file_tree, p)

\* C8 (as claimed): every uid that is a key of uid_to_path is the uid of a
\* File node of the tree.
C8_EveryUidIsInTheTree ==
    DOMAIN uid_to_path \subseteq TreeUids(file_tree)

\* C8 (amended): every uid that is a key of uid_to_path is the uid of a File
\* node of the tree, or of one that a rescan has since replaced.
C8_EveryUidIsOrWasInTheTree ==
    DOMAIN uid_to_path \subseteq TreeUids(file_tree) \cup superseded

\* C8 witness: uid_to_path holds a uid of a replaced File node that no File
\* node of the tree has.
C8_Witness ==
    \E uid \in DOMAIN uid_to_path :
        uid \in superseded /\ uid \notin TreeUids(file_tree)

\* C9: once a rescan has ended, uid_to_path[uid], for every uid the rescan
\* inserted, split on "/" and walked from the root, reaches a File node whose
\* uid is that uid.
C9_InsertedUidsResolve ==
    \A uid \in scan.inserted :
        LET r == Resolve(file_tree, Split(uid_to_path[uid], "/")) IN
        IsFile(r) /\ r.val.asset.uid = uid

\* C9 witness: a rescan has inserted the uid of a file below a directory.
C9_Witness ==
    \E uid \in scan.inserted :
        /\ uid_to_path[uid] = S_TA
        /\ IsFile(Resolve(file_tree, <<T_DIR, A_PNG>>))

\* C10: a rescan during which the walker yields an error returns
\* WalkDirError.
C10_WalkerErrorIsReturned ==
    (scan.result # "none" /\ scan.errors # {}) => scan.result = "WalkDirError"

\* a file whose ingestion fails: it is unreadable, has an unsupported color
\* type or has an unknown extension
IngestionFails(f, p) ==
    \/ Extension(p[Len(p)]) \notin {Some(<<"p", "n", "g">>), Some(<<"j", "p", "g">>),
                                    Some(<<"t", "g", "a">>), Some(<<"d", "d", "s">>)}
    \/ f[p].img.colortype \notin {"RGB8", "RGBA8"}

\* the last rescan ended in a panic of the ingestion pipeline
AbortedInIngestion == scan.result = "panic" /\ scan.panic_in = "process_texture"

\* C11: a file the walker yields whose ingestion fails (unreadable,
\* unsupported color type, unknown extension) is skipped: the rescan does not
\* abort in the ingestion pipeline, and when it has gone through its entries
\* it has returned ok and made no asset of that file.
C11_IngestionFailureIsSkipped ==
    \A p \in scan.yielded :
        IngestionFails(scan.seen, p) =>
            /\ ~AbortedInIngestion
            /\ p \in DOMAIN scan.log => scan.log[p].new = NONE

\* the lower-case form of a character, and of a string
ToLowerChar(c) ==
    CASE c = "P" -> "p" [] c = "N" -> "n" [] c = "G" -> "g" [] OTHER -> c
ToLower(str) == [i \in 1..Len(str) |-> ToLowerChar(str[i])]

\* a file whose extension spells png in some letter case, of color type RGB8
\* or RGBA8
SupportedInAnyCase(f, p) ==
    LET ext == Extension(p[Len(p)]) IN
    /\ ext.kind = "Some"
    /\ ToLower(ext.val) = <<"p", "n", "g">>
    /\ f[p].img.colortype \in {"RGB8", "RGBA8"}

\* C12: a file the walker yields whose extension spells png in any letter
\* case, of color type RGB8 or RGBA8, is ingested as a lower-case .png file
\* is: once the rescan has returned, it has its File leaf in the tree.
C12_ExtensionCaseIsIgnored ==
    scan.result = "ok" =>
        \A p \in scan.yielded :
            SupportedInAnyCase(scan.seen, p) => HasLeaf(file_tree, p)

\* the relative paths whose absolute spelling get_asset is called with
RelativeQueries == {S_TA, S_RA}

\* C13: get_asset(base_path_absolute + "/" + sub) returns what get_asset(sub)
\* returns: the same asset, or none both.
C13_AbsoluteAndRelativeAgree ==
    ReturnedBy("get_asset") =>
        \A sub \in RelativeQueries :
            ret.path = BasePathAbsolute \o <<"/">> \o sub
                => ret.val = GetAssetOf(file_tree, sub)

\* the non-empty segments of a path given to get_asset that are left once
\* get_asset has stripped the prefix
AssetSegments(path) ==
    SelectSeq(Split(TrimStartMatches(Replace(path, "\\", "/"), BasePathAbsolute), "/"),
              NonEmpty)

\* C14: get_asset(path) returns an asset exactly when the non-empty segments
\* of path, as they are after the prefix stripping, lead from the root through
\* Directory nodes to a File node reached with no segment remaining, and then
\* returns that File's asset; a File met before the last segment, a missing
\* segment, a path naming a directory and an empty path give none.
C14_AssetOfThePathWalked ==
    ReturnedBy("get_asset") =>
        LET r == Resolve(file_tree, AssetSegments(ret.path)) IN
        ret.val = IF IsFile(r) THEN Some(r.val.asset) ELSE NONE

\* C14 witness: get_asset has returned the asset of a File below a directory,
\* for an absolute path, from a tree that also holds a File at the root.
C14_Witness ==
    /\ ReturnedBy("get_asset")
    /\ ret.path = S_TA_ABS
    /\ ret.val.kind = "Some"
    /\ IsFile(Resolve(file_tree, <<A_PNG>>))

\* the assets of the File nodes of a tree
RECURSIVE TreeAssets(_)
TreeAssets(node) ==
    IF node.kind = "File" THEN {node.asset}
    ELSE UNION {TreeAssets(node.map[k]) : k \in DOMAIN node.map}

\* the RGBA8 form of decoded pixels: for RGB8 every fourth byte is 255 and the
\* other three are the pixel's, for RGBA8 the bytes are as they are
Normalised(img) ==
    IF img.colortype = "RGB8"
    THEN [i \in 1..(4 * img.w * img.h) |->
             IF i % 4 = 0 THEN 255
             ELSE img.bytes[3 * ((i - 1) \div 4) + ((i - 1) % 4) + 1]]
    ELSE img.bytes

\* C15: the payload of every texture a rescan ingests is the RGBA8 form of the
\* decoded pixels, and for every asset in the tree data_size[0], the payload's
\* length and 4 * source_size[0] * source_size[1] are equal.
C15_PayloadIsRGBA8 ==
    /\ \A p \in DOMAIN scan.log :
          scan.log[p].new.kind = "Some" =>
             scan.log[p].new.val.data.data = Normalised(scan.seen[p].img)
    /\ \A a \in TreeAssets(file_tree) :
          /\ a.data.settings.data_size[1] = Len(a.data.data)
          /\ Len(a.data.data) =
                4 * a.data.settings.source_size[1] * a.data.settings.source_size[2]

\* C15 witness: one rescan has ingested an RGB8 source and an RGBA8 source.
C15_Witness ==
    \E p, q \in DOMAIN scan.log :
        /\ scan.log[p].new.kind = "Some" /\ scan.seen[p].img.colortype = "RGB8"
        /\ scan.log[q].new.kind = "Some" /\ scan.seen[q].img.colortype = "RGBA8"
        /\ scan.log[p].entry.val.asset \in TreeAssets(file_tree)
        /\ scan.log[q].entry.val.asset \in TreeAssets(file_tree)

\* C16: every texture asset in the tree has the format tag RGBA8-sRGB, and no
\* call of get_texture reaches the branch of the other formats.
C16_FormatIsRGBA8Srgb ==
    /\ \A a \in TreeAssets(file_tree) : a.data.settings.format = "R8G8B8A8Srgb"
    /\ ReturnedBy("get_texture") => ret.val.kind # "unimplemented"

\* C16 witness: get_texture has uploaded the asset of an RGB8 source, after
\* rescans that ingested or met sources of every color type.
C16_Witness ==
    /\ ReturnedBy("get_texture")
    /\ ret.val.kind = "Some"
    /\ nscans >= 2
    /\ \E a, b \in TreeAssets(file_tree) :
          /\ a.data.settings.has_channels = RED + GREEN + BLUE
          /\ b.data.settings.has_channels = RED + GREEN + BLUE + ALPHA
          /\ \E u \in gpu.uploads : u.img.data = a.data.data

\* C17 (as claimed): after a rescan that completes, the tree holds no File
\* entry for a file on disk whose extension is not an implemented one or that
\* is a PNG of a color type other than RGB8 and RGBA8, also when an earlier
\* rescan ingested a supported version of the file.
C17_NoEntryForUnsupportedFile ==
    scan.result = "ok" =>
        \A p \in DOMAIN scan.seen :
            ~Supported(scan.seen, p) => ~IsFile(Resolve(file_tree, p))

\* C17 (amended): a rescan that completes makes no File entry for such a
\* file: the tree holds one only if it held it before the rescan, and then
\* holds it unchanged.
C17_NoEntryMadeForUnsupportedFile ==
    scan.result = "ok" =>
        \A p \in DOMAIN scan.seen :
            ~Supported(scan.seen, p) =>
                LET r == Resolve(file_tree, p) IN
                /\ IsFile(r) => r = Resolve(scan.before, p)
                /\ p \in DOMAIN scan.log => scan.log[p].new = NONE

\* C17 witness: a rescan has completed over a PNG of an unsupported color
\* type, handed it to process_file and kept the entry an earlier rescan had
\* ingested, and over a file of another extension, which has no entry.
C17_Witness ==
    /\ scan.result = "ok"
    /\ \E p, q \in DOMAIN scan.log :
          /\ scan.seen[p].img.colortype = "L16"
          /\ scan.log[p].processed
          /\ IsFile(Resolve(file_tree, p))
          /\ Extension(q[Len(q)]) = Some(<<"g", "i", "f">>)
          /\ ~IsFile(Resolve(file_tree, q))

\* C18: a rescan removes no entry: every path get_asset returned an asset for
\* before the rescan has one returned for after it.
C18_RescanKeepsEveryEntry ==
    scan.result = "ok" =>
        \A p \in FsPaths :
            GetAssetOf(scan.before, Join(p, "/")).kind = "Some"
                => GetAssetOf(file_tree, Join(p, "/")).kind = "Some"

\* C19: the walk-or-create step of rescan never meets a File where a
\* Directory is required: get_node_and_create_if_none does not reach its
\* panic, and the node it returns is a Directory.
C19_NoFileWhereDirectoryIsRequired ==
    ~(/\ scan.result = "panic"
      /\ scan.panic_in \in {"get_node_and_create_if_none", "rescan"})

\* a tree without the uids of its assets
RECURSIVE WithoutUids(_)
WithoutUids(node) ==
    IF node.kind = "File" THEN File([node.asset EXCEPT !.uid = 0])
    ELSE Directory([k \in DOMAIN node.map |-> WithoutUids(node.map[k])])

\* the tree a rescan of the filesystem leaves from the present state, the
\* walker yielding the files in the order `order` and no error
TreeAfterRescan(order) ==
    WithoutUids(RescanResult(order, {}, [p \in DOMAIN fs |-> 0]).tree)

\* C20: from one state of the registry and one filesystem, a rescan leaves
\* the same tree (directory and file paths, timestamps, payloads; uids aside)
\* in whatever order the walker yields the files.
C20_TreeIsOrderIndependent ==
    Callable =>
        \A o1, o2 \in WalkOrders(fs) : TreeAfterRescan(o1) = TreeAfterRescan(o2)

\* C21: the upload cache is never invalidated: a handle get_texture(p) has
\* returned is the entry of cached_texture_arcs for p ever after, whatever
\* rescans follow, and it is the handle of the upload made for p, holding the
\* payload of that time; a later get_texture(p) returns it.
C21_CacheIsNeverInvalidated ==
    /\ \A r \in gpu.returned :
          /\ r.path \in DOMAIN cached_texture_arcs
          /\ cached_texture_arcs[r.path] = r.img
          /\ [path |-> r.path, img |-> r.img] \in gpu.uploads
    /\ (ReturnedBy("get_texture") /\ ret.val.kind = "Some")
          => ret.val.val = cached_texture_arcs[ret.path]

\* C21 witness: get_texture(p) has returned the handle it returned before a
\* rescan that re-ingested the asset at p with another uid and other pixel
\* data: the handle holds the old payload, not the asset's.
C21_Witness ==
    /\ ReturnedBy("get_texture")
    /\ ret.val.kind = "Some"
    /\ scan.result = "ok"
    /\ \E r \in gpu.returned :
          r.path = ret.path /\ r.img = ret.val.val /\ r.after < scan.number
    /\ \E r \in gpu.returned :
          r.path = ret.path /\ r.img = ret.val.val /\ r.after = scan.number
    /\ \E p \in DOMAIN scan.log :
          /\ Join(p, "/") = ret.path
          /\ scan.log[p].found.kind = "Some"
          /\ scan.log[p].new.kind = "Some"
          /\ scan.log[p].new.val.uid # scan.log[p].found.val.uid
          /\ scan.log[p].new.val.data.data # scan.log[p].found.val.data.data
          /\ GetAssetOf(file_tree, ret.path) = scan.log[p].new
          /\ ret.val.val.data = scan.log[p].found.val.data.data

====
